---- MODULE Spec2Model ----
(***************************************************************************)
(* Model of dagster_dg/component.py: the component-key identity model      *)
(* (ComponentKey / GlobalComponentKey / LocalComponentKey), the raw-to-     *)
(* typed translators and the fetch-cache-merge construction of a            *)
(* RemoteComponentRegistry (RemoteComponentRegistry.from_dg_context).       *)
(*                                                                         *)
(* Strings that the code inspects character by character (typenames, path   *)
(* strings, JSON object keys) are sequences of one-character strings.       *)
(* A text handed to json.loads / is_valid_json is modelled by its JSON      *)
(* content: the empty text, a text that is no JSON, or the serialization    *)
(* of a JSON value.                                                         *)
(***************************************************************************)
EXTENDS Integers, Sequences, FiniteSets, TLC

VARIABLES
    \* ---- key identity model (KeySpec) ----
    kpc,            \* "input" | "parsed" | "tripped"
    typename,       \* the typename string handed to ComponentKey.from_typename
    dirpath,        \* the dirpath argument handed to ComponentKey.from_typename
    key,            \* the key whose to_typename() produced typename (round trip)
    result,         \* outcome of ComponentKey.from_typename(typename, dirpath)
    \* ---- registry construction (Spec) ----
    pc,                          \* position inside from_dg_context
    has_cache,                   \* dg_context.has_cache
    use_dg_managed_environment,  \* dg_context.use_dg_managed_environment
    local_component_type_dirs,   \* the list of directories supplied by the caller
    cache,                       \* dg_context.cache: cache key -> text (or None)
    cache_at_start,              \* history: the store's content when construction began
    raw_registry_data,           \* local variable of from_dg_context
    component_data,              \* local variable of from_dg_context (the dict)
    paths_to_fetch,              \* local variable of _retrieve_local_component_types
    data,                        \* local variable of _retrieve_local_component_types
    trace,                       \* calls made on the collaborators, in order
    err,                         \* the exception that aborted construction, or "none"
    registry,                    \* the value returned by from_dg_context
    \* ---- use of the returned registry, and a following construction ----
    query,                       \* the last query made on the returned registry
    run,                         \* 1 for the first construction, 2 for the one that follows
    first_registry               \* history: what the first construction returned

keyVars == <<kpc, typename, dirpath, key, result>>
ctxVars == <<pc, has_cache, use_dg_managed_environment, local_component_type_dirs,
             cache_at_start, cache, raw_registry_data, component_data, paths_to_fetch, data, trace,
             err,
             registry>>
auxVars == <<query, run, first_registry>>
vars == <<kpc, typename, dirpath, key, result,
          pc, has_cache, use_dg_managed_environment, local_component_type_dirs,
          cache_at_start, cache, raw_registry_data, component_data, paths_to_fetch, data, trace,
             err,
          registry, query, run, first_registry>>

----------------------------------------------------------------------------
(* Bounds of the model *)

\* longest typename typed into ComponentKey.from_typename
MaxTypenameLen == 6
\* longest name / namespace of a key in the round-trip pool
MaxWordLen == 2
\* longest list of local directories supplied to from_dg_context
MaxDirs == 2

----------------------------------------------------------------------------
(* Characters and strings *)

\* the character class [a-zA-Z0-9_] of COMPONENT_TYPE_REGEX
WordChars ==
    {"a","b","c","d","e","f","g","h","i","j","k","l","m","n","o","p","q","r","s",
     "t","u","v","w","x","y","z",
     "A","B","C","D","E","F","G","H","I","J","K","L","M","N","O","P","Q","R","S",
     "T","U","V","W","X","Y","Z",
     "0","1","2","3","4","5","6","7","8","9","_"}

\* str.endswith
EndsWith(s, suffix) ==
    /\ Len(s) >= Len(suffix)
    /\ SubSeq(s, Len(s) - Len(suffix) + 1, Len(s)) = suffix

\* the local-source extension tested by ComponentKey.from_typename
PyExt == <<".", "p", "y">>

IsWord(s) == Len(s) > 0 /\ \A i \in 1..Len(s) : s[i] \in WordChars

----------------------------------------------------------------------------
(* Keys *)

NoDir == <<>>

GlobalComponentKey(name, namespace) ==
    [kind |-> "global", name |-> name, namespace |-> namespace, dirpath |-> NoDir]

\* faulty variant of LocalComponentKey: equality ignores the variant and dirpath
LocalComponentKey_untagged(name, namespace, dir) ==
    [kind |-> "global", name |-> name, namespace |-> namespace, dirpath |-> NoDir]

LocalComponentKey(name, namespace, dir) ==
    [kind |-> "local", name |-> name, namespace |-> namespace, dirpath |-> dir]

NoKey == [kind |-> "none", name |-> <<>>, namespace |-> <<>>, dirpath |-> NoDir]

Ok(v) == [ok |-> TRUE, err |-> "none", val |-> v]
Raise(e, v) == [ok |-> FALSE, err |-> e, val |-> v]

\* COMPONENT_TYPE_REGEX.match(typename): "$" also matches just before one
\* trailing newline, so the text scanned by the two groups is typename
\* without that newline.
RegexSubject(s) ==
    IF Len(s) > 0 /\ s[Len(s)] = "\n" THEN SubSeq(s, 1, Len(s) - 1) ELSE s

\* positions of "@" that split the subject into two [a-zA-Z0-9_]+ groups
RegexSplits(s) ==
    {i \in 1..Len(RegexSubject(s)) :
        /\ RegexSubject(s)[i] = "@"
        /\ IsWord(SubSeq(RegexSubject(s), 1, i - 1))
        /\ IsWord(SubSeq(RegexSubject(s), i + 1, Len(RegexSubject(s))))}

COMPONENT_TYPE_REGEX_matches(s) == RegexSplits(s) # {}

\* faulty variant of _name_and_namespace_from_type: the two groups exchanged
name_and_namespace_swapped(s) ==
    IF ~COMPONENT_TYPE_REGEX_matches(s)
    THEN Raise("ValueError", <<>>)
    ELSE LET i == CHOOSE j \in RegexSplits(s) : TRUE
         IN  Ok(<<SubSeq(RegexSubject(s), i + 1, Len(RegexSubject(s))),
                  SubSeq(RegexSubject(s), 1, i - 1)>>)

\* _name_and_namespace_from_type: <<group(1), group(2)>> or ValueError
name_and_namespace_from_type(s) ==
    IF ~COMPONENT_TYPE_REGEX_matches(s)
    THEN Raise("ValueError", <<>>)
    ELSE LET i == CHOOSE j \in RegexSplits(s) : TRUE
         IN  Ok(<<SubSeq(RegexSubject(s), 1, i - 1),
                  SubSeq(RegexSubject(s), i + 1, Len(RegexSubject(s)))>>)

\* GlobalComponentKey.to_typename
GlobalComponentKey_to_typename(k) == k.name \o <<"@">> \o k.namespace

\* LocalComponentKey.to_typename
LocalComponentKey_to_typename(k) ==
    k.name \o <<"@">> \o k.namespace \o <<" ", "(">> \o k.dirpath \o <<")">>

\* key.to_typename(), dispatched on the key's class
to_typename(k) ==
    IF k.kind = "local" THEN LocalComponentKey_to_typename(k)
    ELSE GlobalComponentKey_to_typename(k)

\* GlobalComponentKey.from_typename
GlobalComponentKey_from_typename(s) ==
    LET nn == name_and_namespace_from_type(s)
    IN  IF nn.ok THEN Ok(GlobalComponentKey(nn.val[1], nn.val[2]))
        ELSE Raise(nn.err, NoKey)

\* LocalComponentKey.from_type
LocalComponentKey_from_type(s, dir) ==
    LET nn == name_and_namespace_from_type(s)
    IN  IF nn.ok THEN Ok(LocalComponentKey(nn.val[1], nn.val[2], dir))
        ELSE Raise(nn.err, NoKey)

\* ComponentKey.from_typename
ComponentKey_from_typename(s, dir) ==
    IF EndsWith(s, PyExt) THEN LocalComponentKey_from_type(s, dir)
    ELSE GlobalComponentKey_from_typename(s)

----------------------------------------------------------------------------
(* JSON values and texts *)

JNull == [t |-> "null", v |-> <<>>]
JNum == [t |-> "num", v |-> <<>>]
JStr(s) == [t |-> "str", v |-> s]
\* a JSON object: its members in order, each <<key string, value>>, keys unique
JObj(pairs) == [t |-> "obj", v |-> pairs]

ObjKeys(pairs) == {pairs[i][1] : i \in 1..Len(pairs)}

\* dict.get(k, default) on the members of an object
DictGet(pairs, k, default) ==
    IF k \in ObjKeys(pairs)
    THEN pairs[CHOOSE i \in 1..Len(pairs) : pairs[i][1] = k][2]
    ELSE default

\* texts: what cache.get and external_components_command hand back
None == [k |-> "none", j |-> JNull]
EmptyText == [k |-> "empty", j |-> JNull]
GarbageText == [k |-> "garbage", j |-> JNull]
JsonText(v) == [k |-> "json", j |-> v]
\* external_components_command raising instead of returning a text
ProcessFailed == [k |-> "failed", j |-> JNull]

\* Python truthiness of an Optional[str]: None and "" are falsy
Truthy(text) == text.k \notin {"none", "empty"}

json_loads(text) ==
    IF text.k = "json" THEN Ok(text.j) ELSE Raise("JSONDecodeError", JNull)

json_dumps(v) == JsonText(v)

\* dagster_dg.utils.is_valid_json: whether the text parses as JSON
is_valid_json(text) == text.k = "json"

----------------------------------------------------------------------------
(* RemoteComponentType and the raw-to-typed translators *)

F_name == <<"n","a","m","e">>
F_package == <<"p","a","c","k","a","g","e">>
F_summary == <<"s","u","m","m","a","r","y">>
F_description == <<"d","e","s","c","r","i","p","t","i","o","n">>
F_scaffold_params_schema ==
    <<"s","c","a","f","f","o","l","d","_","p","a","r","a","m","s","_",
      "s","c","h","e","m","a">>
F_component_params_schema ==
    <<"c","o","m","p","o","n","e","n","t","_","p","a","r","a","m","s","_",
      "s","c","h","e","m","a">>

\* the fields of the dataclass: none has a default, so all are required
RemoteComponentTypeFields ==
    {F_name, F_package, F_summary, F_description, F_scaffold_params_schema,
     F_component_params_schema}

NoType == [name |-> JNull, package |-> JNull, summary |-> JNull,
           description |-> JNull, scaffold_params_schema |-> JNull,
           component_params_schema |-> JNull]

\* RemoteComponentType(**metadata)
RemoteComponentType(metadata) ==
    IF metadata.t # "obj" THEN Raise("TypeError", NoType)
    ELSE IF ObjKeys(metadata.v) # RemoteComponentTypeFields
    THEN Raise("TypeError", NoType)
    ELSE Ok([name |-> DictGet(metadata.v, F_name, JNull),
             package |-> DictGet(metadata.v, F_package, JNull),
             summary |-> DictGet(metadata.v, F_summary, JNull),
             description |-> DictGet(metadata.v, F_description, JNull),
             scaffold_params_schema |->
                 DictGet(metadata.v, F_scaffold_params_schema, JNull),
             component_params_schema |->
                 DictGet(metadata.v, F_component_params_schema, JNull)])

\* the empty dict
EmptyDict == <<>>

RECURSIVE RemoteItems(_, _, _)
\* the loop of _get_remote_type_mapping_from_raw_data from member i on; the
\* right-hand side of the assignment is evaluated before its target
RemoteItems(pairs, i, acc) ==
    IF i > Len(pairs) THEN Ok(acc)
    ELSE LET ty == RemoteComponentType(pairs[i][2])
             k == GlobalComponentKey_from_typename(pairs[i][1])
         IN  IF ~ty.ok THEN Raise(ty.err, EmptyDict)
             ELSE IF ~k.ok THEN Raise(k.err, EmptyDict)
             ELSE RemoteItems(pairs, i + 1, (k.val :> ty.val) @@ acc)

\* faulty variant of _get_remote_type_mapping_from_raw_data: returns inside the
\* loop, after the first member
get_remote_type_mapping_first_only(raw_data) ==
    IF raw_data.t # "obj" THEN Raise("AttributeError", EmptyDict)
    ELSE IF raw_data.v = <<>> THEN Ok(EmptyDict)
    ELSE RemoteItems(<<raw_data.v[1]>>, 1, EmptyDict)

\* _get_remote_type_mapping_from_raw_data
get_remote_type_mapping_from_raw_data(raw_data) ==
    IF raw_data.t # "obj" THEN Raise("AttributeError", EmptyDict)
    ELSE RemoteItems(raw_data.v, 1, EmptyDict)

RECURSIVE LocalItems(_, _, _, _)
\* the loop of _get_local_type_mapping_from_raw_data from member i on
LocalItems(pairs, dir, i, acc) ==
    IF i > Len(pairs) THEN Ok(acc)
    ELSE LET ty == RemoteComponentType(pairs[i][2])
             k == LocalComponentKey_from_type(pairs[i][1], dir)
         IN  IF ~ty.ok THEN Raise(ty.err, EmptyDict)
             ELSE IF ~k.ok THEN Raise(k.err, EmptyDict)
             ELSE LocalItems(pairs, dir, i + 1, (k.val :> ty.val) @@ acc)

\* str(path): a Path is the sequence of its components, rendered absolute
RECURSIVE str(_)
str(path) ==
    IF path = <<>> THEN <<>>
    ELSE <<"/">> \o Head(path) \o str(Tail(path))

\* _get_local_type_mapping_from_raw_data
get_local_type_mapping_from_raw_data(raw_data, path) ==
    IF raw_data.t # "obj" THEN Raise("AttributeError", EmptyDict)
    ELSE LocalItems(raw_data.v, str(path), 1, EmptyDict)

----------------------------------------------------------------------------
(* The inputs the model draws from *)

Obj6(n, p) ==
    JObj(<<<<F_name, JStr(n)>>, <<F_package, JStr(p)>>, <<F_summary, JNull>>,
           <<F_description, JNull>>, <<F_scaffold_params_schema, JNull>>,
           <<F_component_params_schema, JNull>>>>)

\* complete metadata objects
MetaFoo == Obj6(<<"F","o","o">>, <<"p">>)
MetaBar == Obj6(<<"B","a","r">>, <<"q">>)
\* a metadata object that omits the four optional fields
MetaPartial ==
    JObj(<<<<F_name, JStr(<<"F","o","o">>)>>, <<F_package, JStr(<<"p">>)>>>>)

TnFoo == <<"F","o","o","@","n","s">>
TnBar == <<"B","a","r","@","n","s">>
TnBad == <<"b","a","d"," ","n","a","m","e","@","n","s">>

\* listings: typename -> metadata object
ListingEmpty == JObj(<<>>)
ListingFoo == JObj(<<<<TnFoo, MetaFoo>>>>)
ListingBar == JObj(<<<<TnBar, MetaBar>>>>)
ListingFooBar == JObj(<<<<TnFoo, MetaFoo>>, <<TnBar, MetaBar>>>>)
ListingBadName == JObj(<<<<TnBad, MetaFoo>>>>)
ListingPartial == JObj(<<<<TnFoo, MetaPartial>>>>)
\* a directory's own Foo@ns, from another package than the global one
MetaFooLocal == Obj6(<<"F","o","o">>, <<"l">>)
ListingFooLocal == JObj(<<<<TnFoo, MetaFooLocal>>>>)

\* the directories a caller may name
PathA == <<<<"a">>>>
PathB == <<<<"l","i","b">>, <<"b">>>>
Paths == {PathA, PathB}

RECURSIVE SeqsUpTo(_, _)
SeqsUpTo(S, n) ==
    IF n = 0 THEN {<<>>}
    ELSE SeqsUpTo(S, n - 1) \cup
         {Append(q, x) : q \in {r \in SeqsUpTo(S, n - 1) : Len(r) = n - 1}, x \in S}

DirLists == SeqsUpTo(Paths, MaxDirs)

\* what the "component-types" command may answer
GlobalResponses ==
    {ProcessFailed, GarbageText, JsonText(JNum), JsonText(ListingEmpty),
     JsonText(ListingFoo), JsonText(ListingFooBar), JsonText(ListingBadName),
     JsonText(ListingPartial)}

\* what the store may hold under the global-scope key
GlobalCacheTexts ==
    {None, EmptyText, GarbageText, JsonText(JNum), JsonText(ListingEmpty),
     JsonText(ListingFoo), JsonText(ListingFooBar), JsonText(ListingPartial)}

\* what the store may hold under a directory's key
LocalCacheTexts ==
    {None, EmptyText, GarbageText, JsonText(ListingEmpty), JsonText(ListingFoo)}

\* what the "local-component-types" command may answer: a failure, a text
\* that is no JSON, a JSON value that is no object, an object mapping path
\* strings to listings (possibly omitting paths), or a flat listing
LocalResponses ==
    {ProcessFailed, GarbageText, JsonText(JNum), JsonText(JObj(<<>>)),
     JsonText(JObj(<<<<str(PathA), ListingFoo>>>>)),
     JsonText(JObj(<<<<str(PathB), ListingBar>>>>)),
     JsonText(JObj(<<<<str(PathA), ListingFoo>>, <<str(PathB), ListingBar>>>>)),
     JsonText(JObj(<<<<str(PathB), ListingEmpty>>>>)),
     JsonText(ListingFoo), JsonText(ListingFooLocal)}

----------------------------------------------------------------------------
(* The context: cache keys, the cache store, the log of collaborator calls *)

NoPath == <<>>

\* dg_context.get_cache_key(scope)
get_cache_key(scope) == [scope |-> scope, path |-> NoPath]

\* dg_context.get_cache_key_for_local_components(path)
get_cache_key_for_local_components(path) ==
    [scope |-> "local_component_registry", path |-> path]

GlobalCacheKey == get_cache_key("component_registry_data")

CacheKeys == {GlobalCacheKey} \cup {get_cache_key_for_local_components(p) : p \in Paths}

\* truthiness of a cache key, as tested by "if cache_key and ..."
KeyTruthy(k) == k.scope # ""

EvLock == [op |-> "ensure_uv_lock", sub |-> "", paths |-> {}, key |-> GlobalCacheKey,
           value |-> None]
EvGet(k, text) == [op |-> "cache.get", sub |-> "", paths |-> {}, key |-> k,
                   value |-> text]
EvSet(k, text) == [op |-> "cache.set", sub |-> "", paths |-> {}, key |-> k,
                   value |-> text]
\* external_components_command(["list", sub, *paths])
EvCmd(sub, ps, resp) ==
    [op |-> "external_components_command", sub |-> sub, paths |-> ps,
     key |-> GlobalCacheKey, value |-> resp]

NoRegistry == [ok |-> FALSE, components |-> EmptyDict]
\* RemoteComponentRegistry.__init__: a copy of the dict
RemoteComponentRegistry(components) == [ok |-> TRUE, components |-> components]

----------------------------------------------------------------------------
(* The query surface *)

\* faulty variant of get_global: the isinstance test is left out
get_global_unchecked(reg, k) ==
    IF k \notin DOMAIN reg.components THEN Raise("KeyError", NoType)
    ELSE Ok(reg.components[k])

\* RemoteComponentRegistry.get_global
get_global(reg, k) ==
    IF k.kind # "global" THEN Raise("ValueError", NoType)
    ELSE IF k \notin DOMAIN reg.components THEN Raise("KeyError", NoType)
    ELSE Ok(reg.components[k])

\* RemoteComponentRegistry.has_global
has_global(reg, k) == k \in DOMAIN reg.components

\* RemoteComponentRegistry.get
get(reg, k) ==
    IF k \notin DOMAIN reg.components THEN Raise("KeyError", NoType)
    ELSE Ok(reg.components[k])

\* the characters that occur in key texts, in code point order
CodePointOrder ==
    <<"\n", " ", "(", ")", ".", "/",
      "0","1","2","3","4","5","6","7","8","9", "@",
      "A","B","C","D","E","F","G","H","I","J","K","L","M","N","O","P","Q","R","S",
      "T","U","V","W","X","Y","Z", "_",
      "a","b","c","d","e","f","g","h","i","j","k","l","m","n","o","p","q","r","s",
      "t","u","v","w","x","y","z">>

ord(c) == CHOOSE i \in DOMAIN CodePointOrder : CodePointOrder[i] = c

\* a < b for Python strings
StrLess(a, b) ==
    \E i \in 1..Len(b) :
        /\ Len(a) >= i - 1
        /\ \A j \in 1..(i - 1) : a[j] = b[j]
        /\ (Len(a) = i - 1 \/ ord(a[i]) < ord(b[i]))

RECURSIVE sorted_descending(_)
\* faulty variant of the sort: descending (reverse=True)
sorted_descending(keys) ==
    IF keys = {} THEN <<>>
    ELSE LET m == CHOOSE k \in keys :
                     \A o \in keys : ~StrLess(to_typename(k), to_typename(o))
         IN  <<m>> \o sorted_descending(keys \ {m})

RECURSIVE sorted_by_typename(_)
\* sorted(keys, key=lambda k: k.to_typename())
sorted_by_typename(keys) ==
    IF keys = {} THEN <<>>
    ELSE LET m == CHOOSE k \in keys :
                     \A o \in keys : ~StrLess(to_typename(o), to_typename(k))
         IN  <<m>> \o sorted_by_typename(keys \ {m})

\* RemoteComponentRegistry.global_keys: the keys the generator yields, in order
global_keys(reg) ==
    SelectSeq(sorted_by_typename(DOMAIN reg.components), LAMBDA k : k.kind = "global")

\* RemoteComponentRegistry.global_items: the pairs the generator yields, in
\* order; the first failing get_global ends the enumeration with its error
global_items(reg) ==
    LET ks == global_keys(reg)
    IN  IF \E i \in 1..Len(ks) : ~get_global(reg, ks[i]).ok
        THEN Raise(get_global(reg, ks[CHOOSE i \in 1..Len(ks) :
                                          ~get_global(reg, ks[i]).ok]).err, <<>>)
        ELSE Ok([i \in 1..Len(ks) |-> <<ks[i], get_global(reg, ks[i]).val>>])

\* the keys a caller asks the registry about
QueryKeys ==
    {GlobalComponentKey(<<"F","o","o">>, <<"n","s">>),
     GlobalComponentKey(<<"B","a","r">>, <<"n","s">>),
     LocalComponentKey(<<"F","o","o">>, <<"n","s">>, str(PathA)),
     LocalComponentKey(<<"F","o","o">>, <<"n","s">>, str(PathB)),
     LocalComponentKey(<<"B","a","r">>, <<"n","s">>, str(PathA))}

NoQuery == [key |-> NoKey, has_global |-> FALSE, get |-> Raise("none", NoType),
            get_global |-> Raise("none", NoType), global_items |-> Raise("none", <<>>)]

----------------------------------------------------------------------------
(* RemoteComponentRegistry.from_dg_context, step by step *)

NoResult == Raise("none", NoKey)

KeyIdle ==
    /\ kpc = "idle"
    /\ typename = <<>>
    /\ dirpath = NoDir
    /\ key = NoKey
    /\ result = NoResult

Init ==
    /\ KeyIdle
    /\ pc = "start"
    /\ has_cache \in BOOLEAN
    /\ use_dg_managed_environment \in BOOLEAN
    /\ local_component_type_dirs \in DirLists
    /\ \E g \in GlobalCacheTexts, l \in [Paths -> LocalCacheTexts] :
          cache = [k \in CacheKeys |->
                      IF ~has_cache THEN None
                      ELSE IF k = GlobalCacheKey THEN g ELSE l[k.path]]
    /\ cache_at_start = cache
    /\ raw_registry_data = None
    /\ component_data = EmptyDict
    /\ paths_to_fetch = {}
    /\ data = EmptyDict
    /\ trace = <<>>
    /\ err = "none"
    /\ registry = NoRegistry
    /\ query = NoQuery
    /\ run = 1
    /\ first_registry = NoRegistry

\* faulty variant of Abort: the entries obtained so far are returned
Abort_partial(e) ==
    /\ pc' = "done"
    /\ err' = e
    /\ registry' = RemoteComponentRegistry(component_data)

\* an exception leaves from_dg_context: nothing is returned
Abort(e) ==
    /\ pc' = "error"
    /\ err' = e
    /\ registry' = NoRegistry

\* faulty variant of lines 148-150: the lock is taken unconditionally
EnsureLock_unconditional ==
    /\ pc = "start"
    /\ trace' = Append(trace, EvLock)
    /\ pc' = "read_global_cache"
    /\ UNCHANGED <<has_cache, use_dg_managed_environment, local_component_type_dirs,
                   cache_at_start,
                   cache, raw_registry_data, component_data, paths_to_fetch, data,
                   err, registry>>
    /\ UNCHANGED <<keyVars, auxVars>>

\* lines 148-150
EnsureLock ==
    /\ pc = "start"
    /\ trace' = IF use_dg_managed_environment THEN Append(trace, EvLock) ELSE trace
    /\ pc' = "read_global_cache"
    /\ UNCHANGED <<has_cache, use_dg_managed_environment, local_component_type_dirs,
                   cache_at_start,
                   cache, raw_registry_data, component_data, paths_to_fetch, data,
                   err, registry>>
    /\ UNCHANGED <<keyVars, auxVars>>

\* faulty variant of the test of line 159: the cached entry is ignored
GlobalCacheMiss_always(raw) == TRUE

\* line 159: "if not raw_registry_data"
GlobalCacheMiss(raw) == ~Truthy(raw)

\* lines 152-157
ReadGlobalCache ==
    /\ pc = "read_global_cache"
    /\ IF has_cache
       THEN /\ raw_registry_data' = cache[get_cache_key("component_registry_data")]
            /\ trace' = Append(trace, EvGet(get_cache_key("component_registry_data"),
                                               cache[get_cache_key("component_registry_data")]))
       ELSE /\ raw_registry_data' = None
            /\ trace' = trace
    /\ pc' = IF GlobalCacheMiss(raw_registry_data') THEN "fetch_global"
             ELSE "translate_global"
    /\ UNCHANGED <<has_cache, use_dg_managed_environment, local_component_type_dirs,
                   cache_at_start,
                   cache, component_data, paths_to_fetch, data, err, registry>>
    /\ UNCHANGED <<keyVars, auxVars>>

\* faulty variant of the guard of line 161: the validity check is left out
StoreGlobal_unchecked(text) == has_cache /\ KeyTruthy(GlobalCacheKey)

\* line 161: the guard of the global cache write
StoreGlobal(text) ==
    has_cache /\ KeyTruthy(GlobalCacheKey) /\ is_valid_json(text)

\* lines 160-162: the "component-types" command answers resp
FetchGlobal(resp) ==
    /\ pc = "fetch_global"
    /\ IF resp = ProcessFailed
       THEN /\ trace' = Append(trace, EvCmd("component-types", {}, resp))
            /\ Abort("ProcessError")
            /\ UNCHANGED <<cache, raw_registry_data>>
       ELSE /\ raw_registry_data' = resp
            /\ IF StoreGlobal(resp)
               THEN /\ cache' = [cache EXCEPT ![GlobalCacheKey] = resp]
                    /\ trace' = trace \o <<EvCmd("component-types", {}, resp),
                                           EvSet(GlobalCacheKey, resp)>>
               ELSE /\ cache' = cache
                    /\ trace' = Append(trace, EvCmd("component-types", {}, resp))
            /\ pc' = "translate_global"
            /\ UNCHANGED <<err, registry>>
    /\ UNCHANGED <<has_cache, use_dg_managed_environment, local_component_type_dirs,
                   cache_at_start,
                   component_data, paths_to_fetch, data>>
    /\ UNCHANGED <<keyVars, auxVars>>

\* line 164, and lines 166/171 when no directory was supplied
TranslateGlobal ==
    /\ pc = "translate_global"
    /\ LET parsed == json_loads(raw_registry_data)
           m == get_remote_type_mapping_from_raw_data(parsed.val)
       IN  IF ~parsed.ok
           THEN Abort(parsed.err) /\ UNCHANGED component_data
           ELSE IF ~m.ok
           THEN Abort(m.err) /\ UNCHANGED component_data
           ELSE /\ component_data' = m.val @@ component_data
                /\ err' = err
                /\ IF local_component_type_dirs # <<>>
                   THEN pc' = "scan_local_cache" /\ registry' = registry
                   ELSE pc' = "done" /\ registry' = RemoteComponentRegistry(m.val @@ component_data)
    /\ UNCHANGED <<has_cache, use_dg_managed_environment, local_component_type_dirs,
                   cache_at_start,
                   cache, raw_registry_data, paths_to_fetch, data, trace>>
    /\ UNCHANGED <<keyVars, auxVars>>

----------------------------------------------------------------------------
(* _retrieve_local_component_types *)

SetOf(q) == {q[i] : i \in 1..Len(q)}

\* faulty variant of the test of line 114: the cached entry is ignored
LocalCacheHit_never(raw) == FALSE

\* line 114: "if raw_data"
LocalCacheHit(raw) == Truthy(raw)

ScanOk(acc, fetch, tr) == [ok |-> TRUE, err |-> "none", got |-> acc, fetch |-> fetch,
                           log |-> tr]
ScanRaise(e, fetch, tr) == [ok |-> FALSE, err |-> e, got |-> EmptyDict, fetch |-> fetch,
                            log |-> tr]

RECURSIVE ScanCache(_, _, _, _, _)
\* lines 111-116: the loop over the supplied list, from its i-th element on
ScanCache(paths, i, acc, fetch, tr) ==
    IF i > Len(paths) THEN ScanOk(acc, fetch, tr)
    ELSE LET path == paths[i]
             cache_key == get_cache_key_for_local_components(path)
             raw_data == cache[cache_key]
             tr2 == Append(tr, EvGet(cache_key, raw_data))
             parsed == json_loads(raw_data)
             m == get_local_type_mapping_from_raw_data(parsed.val, path)
         IN  IF ~LocalCacheHit(raw_data) THEN ScanCache(paths, i + 1, acc, fetch, tr2)
             ELSE IF ~parsed.ok THEN ScanRaise(parsed.err, fetch, tr2)
             ELSE IF ~m.ok THEN ScanRaise(m.err, fetch, tr2)
             \* set.remove of an element that is no longer there
             ELSE IF path \notin fetch THEN ScanRaise("KeyError", fetch, tr2)
             ELSE ScanCache(paths, i + 1, m.val @@ acc, fetch \ {path}, tr2)

\* lines 108-116, and line 137 / 167-171 when nothing is left to fetch
ScanLocalCache ==
    /\ pc = "scan_local_cache"
    /\ LET all == SetOf(local_component_type_dirs)
           r == IF has_cache
                THEN ScanCache(local_component_type_dirs, 1, EmptyDict, all, trace)
                ELSE ScanOk(EmptyDict, all, trace)
       IN  /\ trace' = r.log
           /\ paths_to_fetch' = r.fetch
           /\ IF ~r.ok
              THEN Abort(r.err) /\ UNCHANGED <<data, component_data>>
              ELSE /\ data' = r.got
                   /\ err' = err
                   /\ IF r.fetch = {}
                      THEN /\ component_data' = r.got @@ component_data
                           /\ registry' = RemoteComponentRegistry(r.got @@ component_data)
                           /\ pc' = "done"
                      ELSE /\ pc' = "fetch_local"
                           /\ UNCHANGED <<component_data, registry>>
    /\ UNCHANGED <<has_cache, use_dg_managed_environment, local_component_type_dirs,
                   cache_at_start,
                   cache, raw_registry_data>>
    /\ UNCHANGED <<keyVars, auxVars>>

\* line 123: the path arguments of the command
CmdPaths(ps) == {str(path) : path \in ps}

\* line 128: the raw data translated for one fetched path is the whole response
FetchedFor(local_component_data, path) == local_component_data

RECURSIVE MergeFetched(_, _, _)
\* lines 127-128: the loop over the set paths_to_fetch (in any order)
MergeFetched(local_component_data, ps, acc) ==
    IF ps = {} THEN Ok(acc)
    ELSE LET path == CHOOSE p \in ps : TRUE
             m == get_local_type_mapping_from_raw_data(
                      FetchedFor(local_component_data, path), path)
         IN  IF ~m.ok THEN Raise(m.err, EmptyDict)
             ELSE MergeFetched(local_component_data, ps \ {path}, m.val @@ acc)

\* line 133: json.dumps(local_component_data.get(str(path), {}))
DataForPathJson(local_component_data, path) ==
    json_dumps(DictGet(local_component_data.v, str(path), JObj(<<>>)))

RECURSIVE StoreFetched(_, _, _, _)
\* lines 131-135: the loop over the set paths_to_fetch (in any order)
StoreFetched(local_component_data, ps, c, tr) ==
    IF ps = {} THEN [cache |-> c, log |-> tr]
    ELSE LET path == CHOOSE p \in ps : TRUE
             cache_key == get_cache_key_for_local_components(path)
             data_for_path_json == DataForPathJson(local_component_data, path)
         IN  IF KeyTruthy(cache_key) /\ is_valid_json(data_for_path_json)
             THEN StoreFetched(local_component_data, ps \ {path},
                               [c EXCEPT ![cache_key] = data_for_path_json],
                               Append(tr, EvSet(cache_key, data_for_path_json)))
             ELSE StoreFetched(local_component_data, ps \ {path}, c, tr)

\* lines 118-137 and 167-171: the "local-component-types" command answers resp
FetchLocal(resp) ==
    /\ pc = "fetch_local"
    /\ LET tr1 == Append(trace, EvCmd("local-component-types",
                                      CmdPaths(paths_to_fetch), resp))
           parsed == json_loads(resp)
           merged == MergeFetched(parsed.val, paths_to_fetch, data)
           stored == IF has_cache
                     THEN StoreFetched(parsed.val, paths_to_fetch, cache, tr1)
                     ELSE [cache |-> cache, log |-> tr1]
       IN  IF resp = ProcessFailed \/ ~parsed.ok \/ ~merged.ok
           THEN /\ Abort(IF resp = ProcessFailed THEN "ProcessError"
                         ELSE IF ~parsed.ok THEN parsed.err ELSE merged.err)
                /\ trace' = tr1
                /\ UNCHANGED <<cache, data, component_data>>
           ELSE /\ data' = merged.val
                /\ cache' = stored.cache
                /\ trace' = stored.log
                /\ component_data' = merged.val @@ component_data
                /\ registry' = RemoteComponentRegistry(merged.val @@ component_data)
                /\ pc' = "done"
                /\ err' = err
    /\ UNCHANGED <<has_cache, use_dg_managed_environment, local_component_type_dirs,
                   cache_at_start,
                   raw_registry_data, paths_to_fetch>>
    /\ UNCHANGED <<keyVars, auxVars>>

\* the caller asks the returned registry about key k: has_global, get,
\* get_global and one enumeration of global_items; the registry is left as is
Query(k) ==
    /\ pc \in {"done", "queried"}
    /\ query' = [key |-> k,
                 has_global |-> has_global(registry, k),
                 get |-> get(registry, k),
                 get_global |-> get_global(registry, k),
                 global_items |-> global_items(registry)]
    /\ pc' = "queried"
    /\ UNCHANGED <<has_cache, use_dg_managed_environment, local_component_type_dirs,
                   cache_at_start, cache, raw_registry_data, component_data,
                   paths_to_fetch, data, trace, err, registry, run, first_registry>>
    /\ UNCHANGED keyVars

\* a second call of from_dg_context with the same context and directories,
\* right after the first call has returned; the store keeps what was set
Restart ==
    /\ pc = "done"
    /\ run = 1
    /\ run' = 2
    /\ first_registry' = registry
    /\ pc' = "start"
    /\ cache_at_start' = cache
    /\ raw_registry_data' = None
    /\ component_data' = EmptyDict
    /\ paths_to_fetch' = {}
    /\ data' = EmptyDict
    /\ trace' = <<>>
    /\ err' = "none"
    /\ registry' = NoRegistry
    /\ UNCHANGED <<has_cache, use_dg_managed_environment, local_component_type_dirs,
                   cache, query>>
    /\ UNCHANGED keyVars

\* one construction
Construct ==
    \/ EnsureLock
    \/ ReadGlobalCache
    \/ \E resp \in GlobalResponses : FetchGlobal(resp)
    \/ TranslateGlobal
    \/ ScanLocalCache
    \/ \E resp \in LocalResponses : FetchLocal(resp)

Next ==
    \/ Construct
    \/ \E k \in QueryKeys : Query(k)

Spec == Init /\ [][Next]_vars

\* two calls in a row
RerunNext == Construct \/ Restart
RerunSpec == Init /\ [][RerunNext]_vars

----------------------------------------------------------------------------
(* The key identity model exercised on its own *)

\* characters typed into a typename
TypenameChars == {"p", "y", "@", ".", " ", "\n"}

WordsUpTo(n) == {w \in SeqsUpTo({"a", "Z", "0", "_"}, n) : Len(w) > 0}

\* dirpath strings
DirStrings == {str(PathA), <<"x", ".", "p", "y">>}

KeyPool ==
    {GlobalComponentKey(n, ns) : n \in WordsUpTo(MaxWordLen), ns \in WordsUpTo(MaxWordLen)}
    \cup {LocalComponentKey(w[1], w[2], d) :
             w \in WordsUpTo(MaxWordLen) \X WordsUpTo(MaxWordLen), d \in DirStrings}

CtxIdle ==
    /\ pc = "idle"
    /\ has_cache = FALSE
    /\ use_dg_managed_environment = FALSE
    /\ local_component_type_dirs = <<>>
    /\ cache = [k \in CacheKeys |-> None]
    /\ cache_at_start = cache
    /\ raw_registry_data = None
    /\ component_data = EmptyDict
    /\ paths_to_fetch = {}
    /\ data = EmptyDict
    /\ trace = <<>>
    /\ err = "none"
    /\ registry = NoRegistry
    /\ query = NoQuery
    /\ run = 1
    /\ first_registry = NoRegistry

KeyInit ==
    /\ CtxIdle
    /\ kpc = "input"
    /\ typename = <<>>
    /\ dirpath = NoDir
    /\ key = NoKey
    /\ result = NoResult

\* the caller extends the typename it is about to parse by one character
TypeChar(c) ==
    /\ kpc = "input"
    /\ Len(typename) < MaxTypenameLen
    /\ typename' = Append(typename, c)
    /\ UNCHANGED <<kpc, dirpath, key, result>>
    /\ UNCHANGED <<ctxVars, auxVars>>

\* ComponentKey.from_typename(typename, d)
Parse(d) ==
    /\ kpc = "input"
    /\ dirpath' = d
    /\ result' = ComponentKey_from_typename(typename, d)
    /\ kpc' = "parsed"
    /\ UNCHANGED <<typename, key>>
    /\ UNCHANGED <<ctxVars, auxVars>>

\* ComponentKey.from_typename(k.to_typename(), d)
RoundTrip(k, d) ==
    /\ kpc = "input"
    /\ typename = <<>>
    /\ key' = k
    /\ typename' = to_typename(k)
    /\ dirpath' = d
    /\ result' = ComponentKey_from_typename(to_typename(k), d)
    /\ kpc' = "tripped"
    /\ UNCHANGED <<ctxVars, auxVars>>

\* a round trip of some key of the pool, with some dirpath argument
RoundTripSome ==
    /\ typename = <<>>
    /\ \E k \in KeyPool, d \in DirStrings : RoundTrip(k, d)

KeyNext ==
    \/ \E c \in TypenameChars : TypeChar(c)
    \/ \E d \in DirStrings : Parse(d)
    \/ RoundTripSome

KeySpec == KeyInit /\ [][KeyNext]_vars

----------------------------------------------------------------------------
(* Properties *)

Finished == pc \in {"done", "error"}

\* positions in the log of the invocations of the external process with sub
CmdCalls(sub) ==
    {i \in DOMAIN trace :
        trace[i].op = "external_components_command" /\ trace[i].sub = sub}

\* positions in the log of the cache writes under key k
SetCalls(k) == {i \in DOMAIN trace : trace[i].op = "cache.set" /\ trace[i].key = k}

\* positions in the log of the reads of key k that returned an entry (not None)
EntryReads(k) ==
    {i \in DOMAIN trace :
        trace[i].op = "cache.get" /\ trace[i].key = k /\ trace[i].value # None}

\* C1 as stated: whenever the cache is attached and holds any entry under the
\* global-scope key, construction never runs the "component-types" command
\* and never rewrites the global entry.
C1_AnyEntrySkipsGlobalFetch ==
    (has_cache /\ EntryReads(GlobalCacheKey) # {})
        => (CmdCalls("component-types") = {} /\ SetCalls(GlobalCacheKey) = {})

\* C1 amended: whenever the cache is attached and holds a non-empty entry
\* under the global-scope key, construction never runs the "component-types"
\* command and never rewrites the global entry.
C1_NonEmptyEntrySkipsGlobalFetch ==
    (has_cache /\ \E i \in EntryReads(GlobalCacheKey) : trace[i].value # EmptyText)
        => (/\ CmdCalls("component-types") = {}
            /\ SetCalls(GlobalCacheKey) = {}
            /\ cache[GlobalCacheKey] = cache_at_start[GlobalCacheKey])

\* C1 witness: a construction that returned a registry after reading a
\* non-empty global entry, without the "component-types" command.
C1_Witness ==
    /\ pc = "done"
    /\ has_cache
    /\ cache_at_start[GlobalCacheKey] = JsonText(ListingFoo)
    /\ EntryReads(GlobalCacheKey) # {}
    /\ CmdCalls("component-types") = {}

\* the supplied directories for which the store holds no entry at all
DirsWithoutEntry ==
    {p \in SetOf(local_component_type_dirs) :
        cache_at_start[get_cache_key_for_local_components(p)] = None}

\* the supplied directories for which the store holds no non-empty entry
DirsWithoutNonEmptyEntry ==
    {p \in SetOf(local_component_type_dirs) :
        ~Truthy(cache_at_start[get_cache_key_for_local_components(p)])}

\* C2 as stated, read on the constructions that return a registry: such a
\* construction has run the "local-component-types" command exactly once, with
\* exactly the supplied directories that have no cache entry, when there is
\* such a directory, and not at all when every supplied directory has one.
C2_ExactlyOnceWithUncached ==
    pc = "done" =>
        IF DirsWithoutEntry # {}
        THEN /\ Cardinality(CmdCalls("local-component-types")) = 1
             /\ \A i \in CmdCalls("local-component-types") :
                    trace[i].paths = CmdPaths(DirsWithoutEntry)
        ELSE CmdCalls("local-component-types") = {}

\* C2 amended: the "local-component-types" command runs at most once; when it
\* runs, its path arguments are exactly the supplied directories without a
\* non-empty cache entry, and there is such a directory; a construction that
\* returns a registry has run it exactly once if there is such a directory.
C2_AtMostOnceWithUncached ==
    /\ Cardinality(CmdCalls("local-component-types")) <= 1
    /\ \A i \in CmdCalls("local-component-types") :
          /\ DirsWithoutNonEmptyEntry # {}
          /\ trace[i].paths = CmdPaths(DirsWithoutNonEmptyEntry)
    /\ (pc = "done" /\ DirsWithoutNonEmptyEntry # {})
          => Cardinality(CmdCalls("local-component-types")) = 1

\* C2 witness: [A, B] with only A cached, finished with one batch for B only.
C2_Witness ==
    /\ pc = "done"
    /\ local_component_type_dirs = <<PathA, PathB>>
    /\ cache_at_start[get_cache_key_for_local_components(PathA)] = JsonText(ListingFoo)
    /\ cache_at_start[get_cache_key_for_local_components(PathB)] = None
    /\ \E i \in CmdCalls("local-component-types") : trace[i].paths = {str(PathB)}


\* the "name@namespace" form: one "@" between two [a-zA-Z0-9_]+ words
IsNameAtNamespace(t) ==
    \E j \in 1..Len(t) :
        t[j] = "@" /\ IsWord(SubSeq(t, 1, j - 1)) /\ IsWord(SubSeq(t, j + 1, Len(t)))

NameOf(t) == SubSeq(t, 1, (CHOOSE j \in 1..Len(t) : t[j] = "@") - 1)
NamespaceOf(t) == SubSeq(t, (CHOOSE j \in 1..Len(t) : t[j] = "@") + 1, Len(t))

\* a metadata object carrying exactly the six descriptor fields
IsCompleteMetadata(m) == m.t = "obj" /\ ObjKeys(m.v) = RemoteComponentTypeFields

\* a listing object all of whose members are name@namespace -> complete metadata
IsWellFormedListing(l) ==
    /\ l.t = "obj"
    /\ \A i \in 1..Len(l.v) : IsNameAtNamespace(l.v[i][1]) /\ IsCompleteMetadata(l.v[i][2])

\* the descriptor whose fields are those of the metadata object m
DescriptorOf(m) ==
    [name |-> DictGet(m.v, F_name, JNull),
     package |-> DictGet(m.v, F_package, JNull),
     summary |-> DictGet(m.v, F_summary, JNull),
     description |-> DictGet(m.v, F_description, JNull),
     scaffold_params_schema |-> DictGet(m.v, F_scaffold_params_schema, JNull),
     component_params_schema |-> DictGet(m.v, F_component_params_schema, JNull)]

\* the registry's mapping holds, for every member of listing l, a local key
\* with the directory's path string mapped to the member's descriptor
HoldsLocalEntries(l, path) ==
    \A i \in 1..Len(l.v) :
        LET k == LocalComponentKey(NameOf(l.v[i][1]), NamespaceOf(l.v[i][1]), str(path))
        IN  /\ k \in DOMAIN registry.components
            /\ registry.components[k] = DescriptorOf(l.v[i][2])

\* C3 as stated: for [A, B] with a valid cache entry for A, none for B, and a
\* batch response mapping B's path string to B's listing, a finished
\* construction has succeeded and its registry holds the local entries of
\* A's cached listing (dirpath A) and of B's fetched listing (dirpath B).
C3_MergesCachedAndFetched ==
    \A i \in CmdCalls("local-component-types") :
        LET resp == trace[i].value
            a == cache_at_start[get_cache_key_for_local_components(PathA)]
        IN  ( /\ Finished
              /\ has_cache
              /\ local_component_type_dirs = <<PathA, PathB>>
              /\ a.k = "json" /\ IsWellFormedListing(a.j)
              /\ cache_at_start[get_cache_key_for_local_components(PathB)] = None
              /\ resp.k = "json" /\ resp.j.t = "obj"
              /\ ObjKeys(resp.j.v) = {str(PathB)}
              /\ IsWellFormedListing(DictGet(resp.j.v, str(PathB), JNull)) )
            => ( /\ pc = "done"
                 /\ registry.ok
                 /\ HoldsLocalEntries(a.j, PathA)
                 /\ HoldsLocalEntries(DictGet(resp.j.v, str(PathB), JNull), PathB) )

\* C4: every value handed to cache.set is syntactically valid JSON, and no
\* entry of the store that differs from its initial content is anything else.
C4_OnlyValidJsonIsCached ==
    /\ \A i \in DOMAIN trace : trace[i].op = "cache.set" => trace[i].value.k = "json"
    /\ \A k \in CacheKeys : cache[k] # cache_at_start[k] => cache[k].k = "json"

\* C4 witness: the global listing was fetched and stored, then the batch
\* response was malformed and construction ended with nothing else stored.
C4_Witness ==
    /\ pc = "error"
    /\ has_cache
    /\ SetCalls(GlobalCacheKey) # {}
    /\ \E i \in CmdCalls("local-component-types") : trace[i].value = GarbageText
    /\ \A p \in Paths : SetCalls(get_cache_key_for_local_components(p)) = {}

\* C5 as stated: with the cache attached and a batch response that is a JSON
\* object mapping (some of) the requested path strings to listings, a
\* finished construction has left, for every to-fetch directory, a cache
\* entry holding the serialization of that path's listing in the response,
\* or of the empty object when the response omits the path.
C5_FetchedPathsAreCached ==
    \A i \in CmdCalls("local-component-types") :
        LET resp == trace[i].value
        IN  ( /\ Finished
              /\ has_cache
              /\ resp.k = "json" /\ resp.j.t = "obj"
              /\ ObjKeys(resp.j.v) \subseteq trace[i].paths )
            => \A p \in paths_to_fetch :
                   cache[get_cache_key_for_local_components(p)] =
                       JsonText(DictGet(resp.j.v, str(p), JObj(<<>>)))

\* C6 as stated: a non-empty, unparseable entry under the global key or under
\* a supplied directory's key is treated as a miss: construction does not
\* fail with the JSON decoding error and fetches that listing afresh.
C6_CorruptEntryIsAMiss ==
    Finished =>
        /\ (has_cache /\ cache_at_start[GlobalCacheKey] = GarbageText)
              => (err # "JSONDecodeError" /\ CmdCalls("component-types") # {})
        /\ \A i \in DOMAIN trace :
              (/\ trace[i].op = "cache.get"
               /\ trace[i].key # GlobalCacheKey
               /\ trace[i].value = GarbageText)
              => \E j \in CmdCalls("local-component-types") :
                     str(trace[i].key.path) \in trace[j].paths

\* C7: a construction without local directories whose global listing maps
\* name@namespace typenames to complete metadata objects returns a registry
\* whose key set is exactly the GlobalComponentKey(name, namespace) of the
\* typenames, and get_global of each returns the descriptor with the fields
\* of the typename's metadata object.
C7_GlobalListingBecomesRegistry ==
    (/\ pc = "done"
     /\ local_component_type_dirs = <<>>
     /\ raw_registry_data.k = "json"
     /\ IsWellFormedListing(raw_registry_data.j))
    => LET l == raw_registry_data.j.v
       IN  /\ DOMAIN registry.components =
                 {GlobalComponentKey(NameOf(l[i][1]), NamespaceOf(l[i][1])) :
                     i \in 1..Len(l)}
           /\ \A i \in 1..Len(l) :
                 get_global(registry,
                            GlobalComponentKey(NameOf(l[i][1]), NamespaceOf(l[i][1])))
                     = Ok(DescriptorOf(l[i][2]))

\* C7 witness: the listing {Foo@ns, Bar@ns} was obtained and
\* get_global(GlobalComponentKey("Foo", "ns")).package is "p".
C7_Witness ==
    /\ pc = "done"
    /\ local_component_type_dirs = <<>>
    /\ raw_registry_data = JsonText(ListingFooBar)
    /\ get_global(registry, GlobalComponentKey(<<"F","o","o">>, <<"n","s">>)).ok
    /\ get_global(registry, GlobalComponentKey(<<"F","o","o">>, <<"n","s">>)).val.package
           = JStr(<<"p">>)

\* C8: parsing the text form of a global key, with any dirpath argument,
\* returns that key.
C8_GlobalRoundTrip ==
    (kpc = "tripped" /\ key.kind = "global") => result = Ok(key)

\* C8 witness: a global key with different name and namespace made the trip.
C8_Witness ==
    /\ kpc = "tripped"
    /\ key = GlobalComponentKey(<<"a", "_">>, <<"Z", "0">>)
    /\ dirpath = <<"x", ".", "p", "y">>
    /\ result.ok

\* C9 as stated: parsing the text form of a local key, with the key's own
\* dirpath as argument, returns that key.
C9_LocalRoundTrip ==
    (kpc = "tripped" /\ key.kind = "local" /\ dirpath = key.dirpath)
        => result = Ok(key)

\* C10 as stated: a typename ending in ".py" parses to a LocalComponentKey
\* carrying the given dirpath; any other typename of the form name@namespace
\* parses to the GlobalComponentKey of that name and namespace, whatever the
\* dirpath.
C10_DispatchOnSuffix ==
    kpc = "parsed" =>
        /\ EndsWith(typename, PyExt)
              => (result.ok /\ result.val.kind = "local" /\ result.val.dirpath = dirpath)
        /\ (~EndsWith(typename, PyExt) /\ IsNameAtNamespace(typename))
              => result = Ok(GlobalComponentKey(NameOf(typename), NamespaceOf(typename)))

\* C11 as stated: parsing raises ValueError for every typename that is not
\* exactly one [a-zA-Z0-9_]+ name, an "@" and one [a-zA-Z0-9_]+ namespace
\* (a trailing newline included), and so every key a parse returns has a
\* name and a namespace made of [a-zA-Z0-9_]+.
C11_OnlyNameAtNamespaceParses ==
    kpc = "parsed" =>
        /\ ~IsNameAtNamespace(typename) => (~result.ok /\ result.err = "ValueError")
        /\ result.ok => (IsWord(result.val.name) /\ IsWord(result.val.namespace))

KeyFooGlobal == GlobalComponentKey(<<"F","o","o">>, <<"n","s">>)
KeyBarGlobal == GlobalComponentKey(<<"B","a","r">>, <<"n","s">>)
KeyFooLocalA == LocalComponentKey(<<"F","o","o">>, <<"n","s">>, str(PathA))

\* C12 as stated: on every registry construction returns, has_global is false
\* for every LocalComponentKey, and true only for a stored GlobalComponentKey.
C12_HasGlobalRejectsLocalKeys ==
    pc = "queried" =>
        /\ query.key.kind = "local" => ~query.has_global
        /\ query.has_global =>
              (query.key.kind = "global" /\ query.key \in DOMAIN registry.components)

\* C13: get_global raises the type-mismatch error (ValueError) for every
\* LocalComponentKey, stored or not, raises KeyError for a GlobalComponentKey
\* that is not stored, and otherwise returns the stored descriptor.
C13_GetGlobalErrors ==
    pc = "queried" =>
        /\ query.key.kind = "local"
              => (~query.get_global.ok /\ query.get_global.err = "ValueError")
        /\ (query.key.kind = "global" /\ query.key \notin DOMAIN registry.components)
              => (~query.get_global.ok /\ query.get_global.err = "KeyError")
        /\ (query.key.kind = "global" /\ query.key \in DOMAIN registry.components)
              => query.get_global = Ok(registry.components[query.key])

\* C13 witness: get_global was asked for a local key that the registry holds.
C13_Witness ==
    /\ pc = "queried"
    /\ query.key = KeyFooLocalA
    /\ KeyFooLocalA \in DOMAIN registry.components
    /\ query.get_global.err = "ValueError"

\* what one enumeration of global_items yielded is one pair per stored global
\* key and none for a local key, ascending in the keys' text form, each pair
\* with the descriptor stored under its key
GlobalItemsSortedExact ==
    pc = "queried" =>
        /\ query.global_items.ok
        /\ LET items == query.global_items.val
           IN  /\ {items[i][1] : i \in 1..Len(items)} =
                     {k \in DOMAIN registry.components : k.kind = "global"}
               /\ \A i, j \in 1..Len(items) :
                     i < j => StrLess(to_typename(items[i][1]), to_typename(items[j][1]))
               /\ \A i \in 1..Len(items) :
                     items[i][2] = registry.components[items[i][1]]

\* C14: every enumeration of global_items yields exactly the stored global
\* keys, sorted by text form, with their descriptors; a further enumeration
\* yields the same sequence and the registry is left unchanged.
C14_GlobalItemsSortedAndRestartable ==
    /\ []GlobalItemsSortedExact
    /\ [][(pc = "queried" /\ pc' = "queried")
             => (registry' = registry /\ query'.global_items = query.global_items)]_vars

\* C14 witness: a registry holding Foo@ns, Bar@ns and a local key was
\* enumerated: Bar@ns first, then Foo@ns.
C14_Witness ==
    /\ pc = "queried"
    /\ KeyFooLocalA \in DOMAIN registry.components
    /\ query.global_items.ok
    /\ Len(query.global_items.val) = 2
    /\ query.global_items.val[1][1] = KeyBarGlobal
    /\ query.global_items.val[2][1] = KeyFooGlobal

LockCalls == {i \in DOMAIN trace : trace[i].op = "ensure_uv_lock"}

\* C15: with use_dg_managed_environment set, every cache access and every
\* invocation of the external process is preceded by an ensure_uv_lock call,
\* and the call has been made as soon as construction has left its first
\* step; with the flag unset, ensure_uv_lock is never called.
C15_LockBeforeAnythingElse ==
    /\ ~use_dg_managed_environment => LockCalls = {}
    /\ use_dg_managed_environment =>
          /\ pc # "start" => LockCalls # {}
          /\ \A i \in DOMAIN trace :
                trace[i].op # "ensure_uv_lock" => \E j \in LockCalls : j < i

\* C15 witness: a managed environment, a cache read and both commands run,
\* the lock call first of all.
C15_Witness ==
    /\ use_dg_managed_environment
    /\ Len(trace) >= 1 /\ trace[1] = EvLock
    /\ \E i \in DOMAIN trace : trace[i].op = "cache.get"
    /\ CmdCalls("component-types") # {}
    /\ CmdCalls("local-component-types") # {}

\* a metadata object with name and package and no unrecognized field
HasRequiredFields(m) ==
    /\ m.t = "obj"
    /\ {F_name, F_package} \subseteq ObjKeys(m.v)
    /\ ObjKeys(m.v) \subseteq RemoteComponentTypeFields

\* C16 as stated: a global listing whose typenames are name@namespace and
\* whose metadata objects have name and package, possibly omitting optional
\* fields, is translated without error (no directories supplied).
C16_OptionalFieldsMayBeOmitted ==
    ( /\ Finished
      /\ local_component_type_dirs = <<>>
      /\ raw_registry_data.k = "json"
      /\ raw_registry_data.j.t = "obj"
      /\ \A i \in 1..Len(raw_registry_data.j.v) :
            /\ IsNameAtNamespace(raw_registry_data.j.v[i][1])
            /\ HasRequiredFields(raw_registry_data.j.v[i][2]) )
    => (pc = "done" /\ registry.ok)

\* positions in the log of the invocations that failed
FailedCalls ==
    {i \in DOMAIN trace :
        trace[i].op = "external_components_command" /\ trace[i].value = ProcessFailed}

\* the cache keys a listing command would store under
KeysOfCall(ev) ==
    IF ev.sub = "component-types" THEN {GlobalCacheKey}
    ELSE {get_cache_key_for_local_components(p) : p \in {q \in Paths : str(q) \in ev.paths}}

\* C17: once an invocation of the external process has failed, construction
\* has ended with that error and no registry, the failed invocation is the
\* last thing it did and the only invocation of that listing command, and
\* nothing was stored under the keys of the listing that failed.
C17_ProcessFailureAborts ==
    \A i \in FailedCalls :
        /\ pc = "error"
        /\ err = "ProcessError"
        /\ registry = NoRegistry
        /\ i = Len(trace)
        /\ CmdCalls(trace[i].sub) = {i}
        /\ \A k \in KeysOfCall(trace[i]) :
              SetCalls(k) = {} /\ cache[k] = cache_at_start[k]

\* C17 witness: the global entries were obtained, then the local listing
\* command failed.
C17_Witness ==
    /\ pc = "error"
    /\ component_data # EmptyDict
    /\ FailedCalls # {}
    /\ trace[Len(trace)].sub = "local-component-types"

\* C18 as stated: with the cache attached, a construction that immediately
\* follows a successful one for the same directories runs no command and
\* returns a registry with the same mapping as the first.
C18_SecondRunIsCachedAndEqual ==
    (run = 2 /\ Finished /\ has_cache) =>
        /\ CmdCalls("component-types") = {}
        /\ CmdCalls("local-component-types") = {}
        /\ pc = "done"
        /\ registry.components = first_registry.components

KeyFooLocalB == LocalComponentKey(<<"F","o","o">>, <<"n","s">>, str(PathB))

\* a key of the other variant with the same name and namespace is stored
TwinStored(k) ==
    \E o \in DOMAIN registry.components :
        o.kind # k.kind /\ o.name = k.name /\ o.namespace = k.namespace

\* C19: in a returned registry the global entries are exactly those of the
\* global listing, with its descriptors, whatever local entries were merged;
\* get(key) returns the descriptor stored under that very key and raises
\* KeyError when the key is not stored, also when a key of the other variant
\* with equal name and namespace is; has_global of a local key that is not
\* stored is false, also when the global key of equal name and namespace is.
C19_VariantsNeverCollide ==
    pc \in {"done", "queried"} =>
        LET l == raw_registry_data.j.v
            gkey(i) == GlobalComponentKey(NameOf(l[i][1]), NamespaceOf(l[i][1]))
        IN  /\ {k \in DOMAIN registry.components : k.kind = "global"} =
                  {gkey(i) : i \in 1..Len(l)}
            /\ \A i \in 1..Len(l) : registry.components[gkey(i)] = DescriptorOf(l[i][2])
            /\ pc = "queried" =>
                  /\ query.key \in DOMAIN registry.components
                        => query.get = Ok(registry.components[query.key])
                  /\ query.key \notin DOMAIN registry.components
                        => (~query.get.ok /\ query.get.err = "KeyError")
                  /\ (query.key.kind = "local"
                         /\ query.key \notin DOMAIN registry.components)
                        => ~query.has_global
                  /\ (query.key.kind = "global" /\ query.get.ok)
                        => \E i \in 1..Len(l) :
                              query.key = gkey(i) /\ query.get.val = DescriptorOf(l[i][2])

\* C19 witness: global Foo@ns (package p) and the local Foo@ns of /a
\* (package l) are both stored; the local Foo@ns of /lib/b, which is not
\* stored, was asked for: has_global is false and get raises KeyError.
C19_Witness ==
    /\ pc = "queried"
    /\ KeyFooGlobal \in DOMAIN registry.components
    /\ KeyFooLocalA \in DOMAIN registry.components
    /\ registry.components[KeyFooGlobal].package = JStr(<<"p">>)
    /\ registry.components[KeyFooLocalA].package = JStr(<<"l">>)
    /\ query.key = KeyFooLocalB
    /\ TwinStored(query.key)
    /\ ~query.has_global
    /\ query.get.err = "KeyError"

RECURSIVE WithoutRepetitions(_)
\* the list q with every later repetition of an element dropped
WithoutRepetitions(q) ==
    IF q = <<>> THEN <<>>
    ELSE LET front == WithoutRepetitions(SubSeq(q, 1, Len(q) - 1))
         IN  IF q[Len(q)] \in SetOf(front) THEN front ELSE Append(front, q[Len(q)])

\* C20 as stated: the scan of the local cache ends, for the supplied list,
\* as it would for the same list without repetitions: with an error in the
\* one case exactly when in the other, and otherwise with the same cached
\* entries gathered and the same paths left to fetch.
C20_RepetitionsDoNotMatter ==
    [][(pc = "scan_local_cache" /\ pc' # "scan_local_cache") =>
          LET once == WithoutRepetitions(local_component_type_dirs)
              r == IF has_cache
                   THEN ScanCache(once, 1, EmptyDict, SetOf(once), trace)
                   ELSE ScanOk(EmptyDict, SetOf(once), trace)
          IN  /\ (pc' = "error") <=> ~r.ok
              /\ r.ok => (data' = r.got /\ paths_to_fetch' = r.fetch)]_vars

====
